---- MODULE Spec2Model ----
(***************************************************************************)
(* Model of chan-ui's data service (src/chan_viz/data_service.py): the     *)
(* class StreamlitDataService (load_chan_data, the raw-unit index mapper   *)
(* and the extractors) and the module-level revision of the same           *)
(* functions that lives in the same file.                                  *)
(*                                                                         *)
(* Prices are integers in hundredths (100.5 is 10050); float() and int()   *)
(* are the identity on the numbers the engine delivers.  Python's None and *)
(* the empty string, both falsy, are the string "".                        *)
(***************************************************************************)
EXTENDS Integers, Sequences, FiniteSets, TLC

MaxAggs == 3
MaxAggSize == 3

(***************************************************************************)
(* The analytics engine's output (chan.kl_datas[level]).                   *)
(***************************************************************************)

\* CKLine_Unit: idx is the engine's global arrival-order index; klc is the
\* merged candle that owns the unit (its ordinal idx and its close, the close
\* of its last raw unit).
Klu(i, ordinal, last) ==
  [idx |-> i, time |-> i, open |-> 10000 + 100 * i, close |-> 10050 + 100 * i,
   low |-> 9900 + 100 * i, high |-> 10150 + 100 * i, volume |-> 1000 + i,
   klc |-> [idx |-> ordinal, close |-> 10050 + 100 * last]]

\* CKLine (merged candle): ordinal idx and the raw units it owns (lst).
Klc(ordinal, first, size) ==
  [idx |-> ordinal,
   lst |-> [j \in 1..size |-> Klu(first + j - 1, ordinal, first + size - 1)]]

RECURSIVE SumSizes(_, _)
SumSizes(sizes, k) ==
  IF k = 0 THEN 0 ELSE SumSizes(sizes, k - 1) + sizes[k]

\* The merged-candle list whose k-th aggregate owns sizes[k] raw units.
KlineList(sizes) ==
  [k \in 1..Len(sizes) |-> Klc(k - 1, SumSizes(sizes, k - 1), sizes[k])]

SizeSeqs ==
  UNION {[1..n -> 0..MaxAggSize] : n \in 0..MaxAggs}

\* len(klc.lst) for every klc of the list
SizesOf(kline_list) ==
  [k \in 1..Len(kline_list) |-> Len(kline_list[k].lst)]

RECURSIVE FlattenFrom(_, _)
FlattenFrom(kline_list, k) ==
  IF k > Len(kline_list) THEN <<>>
  ELSE kline_list[k].lst \o FlattenFrom(kline_list, k + 1)

\* for kline_combine in kline_list: for klu in kline_combine.lst
KluSeq(kline_list) == FlattenFrom(kline_list, 1)

(***************************************************************************)
(* StreamlitDataService._build_klu_index_mapping                           *)
(***************************************************************************)

RECURSIVE build_klu_index_mapping_loop(_, _, _, _)
build_klu_index_mapping_loop(kline_list, k, total_klu_count, map) ==
  IF k > Len(kline_list) THEN map
  ELSE LET klc_idx == k - 1
           start_klu_idx == total_klu_count
           klc_klu_count == Len(kline_list[k].lst)
           end_klu_idx == start_klu_idx + klc_klu_count - 1
       IN build_klu_index_mapping_loop(kline_list, k + 1,
            total_klu_count + klc_klu_count,
            map @@ (klc_idx :> <<start_klu_idx, end_klu_idx>>))

\* the running counter started at 1 instead of 0
build_klu_index_mapping_from_one(kline_list) ==
  build_klu_index_mapping_loop(kline_list, 1, 1, <<>>)

build_klu_index_mapping(kline_list) ==
  build_klu_index_mapping_loop(kline_list, 1, 0, <<>>)

(***************************************************************************)
(* Overlay objects of the engine.  ok = FALSE is an object whose accessors *)
(* raise (a missing attribute, a None reference).                          *)
(***************************************************************************)

\* BI_DIR as the extractors test it: UP is 1 (is_up()), DOWN is -1.
Dirs == {1, -1}

\* (begin price, end price) pairs: rising, falling, flat
PricePairs == {<<10000, 10500>>, <<10500, 10000>>, <<10000, 10000>>}

\* CBi / CSeg: get_begin_klu(), get_end_klu(), get_begin_val(), get_end_val(),
\* dir / is_up(), is_sure
Line(b, e, pp, d, sure, good) ==
  [begin_klu |-> b, end_klu |-> e, begin_val |-> pp[1], end_val |-> pp[2],
   dir |-> d, is_sure |-> sure, ok |-> good]

\* CZS: begin and end are raw units, low/high the price bounds
Zone(b, e, lo, hi, sure, good) ==
  [begin |-> b, end |-> e, low |-> lo, high |-> hi, is_sure |-> sure, ok |-> good]

\* CBS_Point: klu, the originating stroke bi, is_buy, type2str()
BsPoint(k, stroke, buy, t, good) ==
  [klu |-> k, bi |-> stroke, is_buy |-> buy, type |-> t, ok |-> good]

BspTypes == {"1", "2", "3a", ""}

Rising == <<10000, 10500>>

\* the price pair of a line that starts at price v and moves with flag d
PairFrom(v, d) == IF d = 1 THEN <<v, v + 500>> ELSE <<v, v - 500>>

\* Lines over the raw units U: every end point from the first raw unit and
\* every begin point to the last with one price/flag combination, every
\* price/flag/certainty combination on the outermost pair, and a line whose
\* accessors raise.
LinesOver(U) ==
  LET N == Len(U) IN
  IF N < 2 THEN {}
  ELSE {Line(U[1], U[e], Rising, 1, TRUE, TRUE) : e \in 2..N}
       \cup {Line(U[b], U[N], Rising, 1, TRUE, TRUE) : b \in 1..(N - 1)}
       \cup {Line(U[1], U[N], pp, d, s, TRUE) :
               pp \in PricePairs, d \in Dirs, s \in BOOLEAN}
       \cup {Line(U[1], U[N], Rising, 1, TRUE, FALSE)}

\* Two consecutive lines meeting at raw unit m.  The engine draws strokes
\* between fractals of alternating kind, so the flag of a stroke is the
\* opposite of its predecessor's: up then down for every m, both orders at
\* the first m; the second line may be broken.
LinePairsOver(U) ==
  LET N == Len(U)
      Pair(m, d1, d2, g) ==
        <<Line(U[1], U[m], PairFrom(10000, d1), d1, TRUE, TRUE),
          Line(U[m], U[N], PairFrom(PairFrom(10000, d1)[2], d2), d2, TRUE, g)>>
  IN IF N < 3 THEN {}
     ELSE {Pair(m, 1, -1, TRUE) : m \in 2..(N - 1)}
          \cup {Pair(2, d, -d, g) : d \in Dirs, g \in BOOLEAN}

LineLists(U) ==
  {<<>>} \cup {<<l>> : l \in LinesOver(U)} \cup LinePairsOver(U)

SegLists(U) ==
  {<<>>} \cup {<<l>> : l \in LinesOver(U)}

ZonesOver(U) ==
  LET N == Len(U) IN
  IF N < 1 THEN {}
  ELSE {Zone(U[1], U[e], 9900, 10100, TRUE, TRUE) : e \in 1..N}
       \cup {Zone(U[b], U[N], 9900, 10100, TRUE, TRUE) : b \in 1..N}
       \cup {Zone(U[1], U[N], 10000, 10000, s, TRUE) : s \in BOOLEAN}
       \cup {Zone(U[1], U[N], 9900, 10100, FALSE, g) : g \in BOOLEAN}

ZoneLists(U) ==
  {<<>>} \cup {<<z>> : z \in ZonesOver(U)}
  \cup (IF Len(U) < 1 THEN {}
        ELSE {<<Zone(U[1], U[1], 9900, 10100, TRUE, TRUE),
                Zone(U[Len(U)], U[Len(U)], 9900, 10100, TRUE, g)>> : g \in BOOLEAN})

\* Signal points: the engine sets klu to the end raw unit of the stroke.
BsPointsOver(U) ==
  LET N == Len(U) IN
  IF N < 2 THEN {}
  ELSE {BsPoint(U[e], Line(U[1], U[e], Rising, 1, TRUE, TRUE), FALSE, "1", TRUE) :
          e \in 2..N}
       \cup {BsPoint(U[N], Line(U[1], U[N], PairFrom(10500, d), d, TRUE, TRUE),
                     d = -1, t, TRUE) : d \in Dirs, t \in BspTypes}
       \cup {BsPoint(U[N], Line(U[1], U[N], Rising, 1, TRUE, TRUE), FALSE, "1", FALSE)}

BsPointLists(U) ==
  {<<>>} \cup {<<b>> : b \in BsPointsOver(U)}
  \cup (IF Len(U) < 2 THEN {}
        ELSE {<<BsPoint(U[2], Line(U[1], U[2], Rising, 1, TRUE, TRUE), FALSE, "1", TRUE),
                BsPoint(U[Len(U)], Line(U[1], U[Len(U)], Rising, 1, TRUE, TRUE),
                        FALSE, "2", g)>> : g \in BOOLEAN})

\* What can go wrong below the overlay objects: the level lookup
\* chan.kl_datas[level], a raw unit's attributes, getSortedBspList().
Faults == {"none", "kl_datas", "klu", "getSortedBspList"}

Chan(kl, bi, seg, zs, bsp, f) ==
  [kline_list |-> kl, bi_list |-> bi, seg_list |-> seg, zs_list |-> zs,
   bs_point_lst |-> bsp, fault |-> f]

\* The engine's results for one aggregate sequence: one overlay kind at a
\* time in all its variety, one result with every kind present, and the
\* three faults (a raw unit fails only where there is one).
ChansOver(kl) ==
  LET U == KluSeq(kl) N == Len(U) IN
  {Chan(kl, bi, <<>>, <<>>, <<>>, "none") : bi \in LineLists(U)}
  \cup {Chan(kl, <<>>, seg, <<>>, <<>>, "none") : seg \in SegLists(U)}
  \cup {Chan(kl, <<>>, <<>>, zs, <<>>, "none") : zs \in ZoneLists(U)}
  \cup {Chan(kl, <<>>, <<>>, <<>>, bsp, "none") : bsp \in BsPointLists(U)}
  \cup {Chan(kl, <<>>, <<>>, <<>>, <<>>, f) :
          f \in IF N = 0 THEN Faults \ {"klu"} ELSE Faults}
  \cup (IF N < 2 THEN {}
        ELSE {Chan(kl, <<Line(U[1], U[N], Rising, 1, TRUE, TRUE)>>,
                   <<Line(U[1], U[N], Rising, 1, FALSE, TRUE)>>,
                   <<Zone(U[1], U[N], 9900, 10100, TRUE, TRUE)>>,
                   <<BsPoint(U[N], Line(U[1], U[N], Rising, 1, TRUE, TRUE),
                             FALSE, "1", TRUE)>>, f) :
                f \in {"none", "getSortedBspList"}})


(***************************************************************************)
(* Results of a call: a returned value or a raised exception, with the     *)
(* lines it printed and the requests it made to the engine (CChan(...)).   *)
(***************************************************************************)

Return(v) == [kind |-> "return", value |-> v]

Raise(e, m) == [kind |-> "raise", exc |-> e, msg |-> m]

\* str(klu.time)
StrOfTime(t) == <<"date", t>>

AllOk(list) == \A i \in 1..Len(list) : list[i].ok

(***************************************************************************)
(* StreamlitDataService: the extractors                                    *)
(***************************************************************************)

\* one row per merged candle (its first raw unit) instead of one per raw unit
extract_kline_data_per_klc(kline_list, fault) ==
  LET U == [k \in 1..Len(kline_list) |-> kline_list[k].lst[1]] IN
  IF fault = "klu" THEN Raise("AttributeError", "klu")
  ELSE Return([dates |-> [i \in 1..Len(U) |-> StrOfTime(U[i].time)],
               open |-> [i \in 1..Len(U) |-> U[i].open],
               close |-> [i \in 1..Len(U) |-> U[i].close],
               low |-> [i \in 1..Len(U) |-> U[i].low],
               high |-> [i \in 1..Len(U) |-> U[i].high],
               volume |-> [i \in 1..Len(U) |-> U[i].volume]])

\* the low appended to the high array as well
extract_kline_data_low_for_high(kline_list, fault) ==
  LET U == KluSeq(kline_list) IN
  IF fault = "klu" THEN Raise("AttributeError", "klu")
  ELSE Return([dates |-> [i \in 1..Len(U) |-> StrOfTime(U[i].time)],
               open |-> [i \in 1..Len(U) |-> U[i].open],
               close |-> [i \in 1..Len(U) |-> U[i].close],
               low |-> [i \in 1..Len(U) |-> U[i].low],
               high |-> [i \in 1..Len(U) |-> U[i].low],
               volume |-> [i \in 1..Len(U) |-> U[i].volume]])

extract_kline_data(kline_list, fault) ==
  LET U == KluSeq(kline_list) IN
  IF fault = "klu" THEN Raise("AttributeError", "klu")
  ELSE Return([dates |-> [i \in 1..Len(U) |-> StrOfTime(U[i].time)],
               open |-> [i \in 1..Len(U) |-> U[i].open],
               close |-> [i \in 1..Len(U) |-> U[i].close],
               low |-> [i \in 1..Len(U) |-> U[i].low],
               high |-> [i \in 1..Len(U) |-> U[i].high],
               volume |-> [i \in 1..Len(U) |-> U[i].volume]])

\* the end raw unit resolved first
bi_coord_end_first(bi) ==
  [x |-> <<bi.end_klu.idx, bi.begin_klu.idx>>,
   y |-> <<bi.begin_val, bi.end_val>>,
   type |-> "bi",
   direction |-> IF bi.dir = 1 THEN "up" ELSE "down",
   is_sure |-> bi.is_sure]

\* is_up tested as an attribute, not called: a bound method is always truthy
bi_coord_is_up_not_called(bi) ==
  [x |-> <<bi.begin_klu.idx, bi.end_klu.idx>>,
   y |-> <<bi.begin_val, bi.end_val>>,
   type |-> "bi",
   direction |-> "up",
   is_sure |-> bi.is_sure]

bi_coord(bi) ==
  [x |-> <<bi.begin_klu.idx, bi.end_klu.idx>>,
   y |-> <<bi.begin_val, bi.end_val>>,
   type |-> "bi",
   direction |-> IF bi.dir = 1 THEN "up" ELSE "down",
   is_sure |-> bi.is_sure]

extract_bi_data(bi_list, klu_global_index_map) ==
  IF ~AllOk(bi_list) THEN Raise("AttributeError", "bi")
  ELSE Return([i \in 1..Len(bi_list) |-> bi_coord(bi_list[i])])

\* getattr(zs, 'is_sure', True) always taking its default
zone_coord_default_sure(zs) ==
  [x |-> <<zs.begin.idx, zs.end.idx>>,
   y |-> <<zs.low, zs.high>>,
   type |-> "zs",
   is_sure |-> TRUE]

\* the price bounds appended in the order high, low
zone_coord_high_first(zs) ==
  [x |-> <<zs.begin.idx, zs.end.idx>>,
   y |-> <<zs.high, zs.low>>,
   type |-> "zs",
   is_sure |-> zs.is_sure]

zone_coord(zs) ==
  [x |-> <<zs.begin.idx, zs.end.idx>>,
   y |-> <<zs.low, zs.high>>,
   type |-> "zs",
   is_sure |-> zs.is_sure]

extract_zs_data(zs_list, klu_global_index_map) ==
  IF ~AllOk(zs_list) THEN Raise("AttributeError", "zs")
  ELSE Return([i \in 1..Len(zs_list) |-> zone_coord(zs_list[i])])

segment_coord(seg) ==
  [x |-> <<seg.begin_klu.idx, seg.end_klu.idx>>,
   y |-> <<seg.begin_val, seg.end_val>>,
   type |-> "seg",
   direction |-> IF seg.dir = 1 THEN "up" ELSE "down",
   is_sure |-> seg.is_sure]

extract_segment_data(seg_list, klu_global_index_map) ==
  IF ~AllOk(seg_list) THEN Raise("AttributeError", "seg")
  ELSE Return([i \in 1..Len(seg_list) |-> segment_coord(seg_list[i])])

\* the index counted from 1
bsp_item_one_based(bsp) ==
  [kl_idx |-> bsp.klu.idx + 1, price |-> bsp.bi.end_val,
   is_buy |-> bsp.is_buy, type |-> bsp.type]

\* the price read from the signal's raw unit instead of its stroke
bsp_item_price_from_klu(bsp) ==
  [kl_idx |-> bsp.klu.idx, price |-> bsp.klu.close,
   is_buy |-> bsp.is_buy, type |-> bsp.type]

bsp_item(bsp) ==
  [kl_idx |-> bsp.klu.idx, price |-> bsp.bi.end_val,
   is_buy |-> bsp.is_buy, type |-> bsp.type]

\* the number of leading signal points converted before one raises
RECURSIVE OkPrefix(_, _)
OkPrefix(list, k) ==
  IF k > Len(list) \/ ~list[k].ok THEN k - 1 ELSE OkPrefix(list, k + 1)

\* try: ... except Exception: print, pass -- returns what was appended so far
extract_bsp_data(bsp_list, fault) ==
  IF fault = "getSortedBspList"
  THEN [value |-> <<>>, printed |-> <<"bsp_error">>]
  ELSE LET n == OkPrefix(bsp_list, 1) IN
       [value |-> [i \in 1..n |-> bsp_item(bsp_list[i])],
        printed |-> IF n < Len(bsp_list) THEN <<"bsp_error">> ELSE <<>>]

(***************************************************************************)
(* StreamlitDataService._convert_to_visualization_data                     *)
(***************************************************************************)

convert_to_visualization_data(chan) ==
  IF chan.fault = "kl_datas"
  THEN [res |-> Raise("RuntimeError", "convert_failed"), printed |-> <<>>]
  ELSE
  LET kline_list == chan.kline_list
      klu_global_index_map == build_klu_index_mapping(kline_list)
      kline == extract_kline_data(kline_list, chan.fault)
      bi == extract_bi_data(chan.bi_list, klu_global_index_map)
      segment == extract_segment_data(chan.seg_list, klu_global_index_map)
      central_zone == extract_zs_data(chan.zs_list, klu_global_index_map)
      bsp == extract_bsp_data(chan.bs_point_lst, chan.fault)
  IN IF kline.kind = "raise" \/ bi.kind = "raise" \/ segment.kind = "raise"
        \/ central_zone.kind = "raise"
     THEN [res |-> Raise("RuntimeError", "convert_failed"), printed |-> <<>>]
     ELSE [res |-> Return([kline |-> kline.value, bi |-> bi.value,
                           segment |-> segment.value,
                           central_zone |-> central_zone.value,
                           buy_sell_points |-> bsp.value]),
           printed |-> bsp.printed]

(***************************************************************************)
(* StreamlitDataService.load_chan_data                                     *)
(***************************************************************************)

Codes == {"", "000001.SZ"}
Levels == {"", "K_DAY"}
Dates == {"", "2023-06-01"}

\* datetime.now().strftime("%Y-%m-%d")
Today == "today"

\* .SZ/.SH suffix to BaoStock's sz./sh. prefix
baostock_code(code) ==
  CASE code = "000001.SZ" -> "sz.000001"
    [] code = "600000.SH" -> "sh.600000"
    [] OTHER -> code

\* level_mapping.get(level, KL_TYPE.K_DAY)
kl_type(level) ==
  IF level \in {"K_DAY", "K_60M", "K_30M", "K_15M", "K_5M", "K_1M"}
  THEN level ELSE "K_DAY"

\* StreamlitConfig (src/chan_viz/config_compiler.py)
base_config ==
  [bi_strict |-> TRUE, zs_combine |-> TRUE, seg_algo |-> "chan", zs_algo |-> "normal"]

\* {**base_config, ...}: the keys of base_config, then the six keys read
\* from the inputs with default True
from_streamlit(st_inputs) ==
  [k \in DOMAIN base_config
        \cup {"bi_strict", "zs_combine", "show_bsp", "show_bi", "show_seg", "show_zs"} |->
     IF k \in {"seg_algo", "zs_algo"} THEN base_config[k]
     ELSE IF k \in DOMAIN st_inputs THEN st_inputs[k] ELSE TRUE]

\* The parameter dictionaries of the callers: the six checkboxes of the
\* sidebar, all ticked or with some cleared, and an empty dictionary.
Checkboxes(bi_strict, zs_combine, show_bsp, show_bi, show_seg, show_zs) ==
  [bi_strict |-> bi_strict, zs_combine |-> zs_combine, show_bsp |-> show_bsp,
   show_bi |-> show_bi, show_seg |-> show_seg, show_zs |-> show_zs]

StInputs ==
  {<<>>, Checkboxes(TRUE, TRUE, TRUE, TRUE, TRUE, TRUE),
   Checkboxes(FALSE, TRUE, TRUE, FALSE, TRUE, TRUE),
   Checkboxes(TRUE, FALSE, FALSE, TRUE, FALSE, FALSE)}

\* The CChan(...) request; config is the dictionary CChanConfig(config) is
\* built from.
ChanRequest(code, begin_time, end_time, lv, config) ==
  [code |-> code, begin_time |-> begin_time, end_time |-> end_time,
   data_src |-> "BAO_STOCK", lv_list |-> <<lv>>, config |-> config]

\* What CChan(...) does: raise (network, data source) or deliver a result.
EngineRaises == [raises |-> TRUE]

Delivers(chan) == [raises |-> FALSE, chan |-> chan]

Outcome(res, printed, engine_calls) ==
  [res |-> res, printed |-> printed, engine_calls |-> engine_calls]

\* the availability of the engine is checked before the parameters
load_chan_data_availability_first(chan_available, code, level, config, start_date, end_date, engine) ==
  IF ~chan_available
  THEN Outcome(Raise("RuntimeError", "chan_unavailable"), <<>>, <<>>)
  ELSE IF code = "" \/ level = ""
  THEN Outcome(Raise("ValueError", "missing_parameters"), <<>>, <<>>)
  ELSE
  LET start == IF start_date = "" THEN "2023-01-01" ELSE start_date
      end == IF end_date = "" THEN Today ELSE end_date
      request == ChanRequest(baostock_code(code), start, end, kl_type(level), config)
  IN IF engine.raises
     THEN Outcome(Raise("RuntimeError", "load_failed"),
                  <<"load_error">>, <<request>>)
     ELSE LET c == convert_to_visualization_data(engine.chan) IN
          IF c.res.kind = "raise"
          THEN Outcome(Raise("RuntimeError", "load_failed"),
                       c.printed \o <<"load_error">>, <<request>>)
          ELSE Outcome(c.res, c.printed, <<request>>)

load_chan_data(chan_available, code, level, config, start_date, end_date, engine) ==
  IF code = "" \/ level = ""
  THEN Outcome(Raise("ValueError", "missing_parameters"), <<>>, <<>>)
  ELSE
  LET start == IF start_date = "" THEN "2023-01-01" ELSE start_date
      end == IF end_date = "" THEN Today ELSE end_date
      request == ChanRequest(baostock_code(code), start, end, kl_type(level), config)
  IN IF ~chan_available
     THEN Outcome(Raise("RuntimeError", "chan_unavailable"), <<>>, <<>>)
     ELSE IF engine.raises
     THEN Outcome(Raise("RuntimeError", "load_failed"),
                  <<"load_error">>, <<request>>)
     ELSE LET c == convert_to_visualization_data(engine.chan) IN
          IF c.res.kind = "raise"
          THEN Outcome(Raise("RuntimeError", "load_failed"),
                       c.printed \o <<"load_error">>, <<request>>)
          ELSE Outcome(c.res, c.printed, <<request>>)

(***************************************************************************)
(* The module-level revision: extractors that substitute mock values on    *)
(* any exception, and _get_mock_data.                                      *)
(***************************************************************************)

\* One draw of the random module per call: u1, u2 in {-1, 1} scale the
\* symmetric uniform ranges, v in {0, 1} the one-sided ones.
Rnds == {[u1 |-> a, u2 |-> b, v |-> c] : a \in {-1, 1}, b \in {-1, 1}, c \in {0, 1}}

DayNow == 100

\* [(now - timedelta(days=i)).strftime(...) for i in range(n)], reversed
MockDates(n) == [k \in 1..n |-> StrOfTime(DayNow - (n - k))]

Max2(a, b) == IF a >= b THEN a ELSE b

Min2(a, b) == IF a <= b THEN a ELSE b

\* The rows of a mock candle series: open = base + uniform(-so, so), close =
\* open + uniform(-sc, sc), high and low one-sided by sw; base = close.
RECURSIVE MockRows(_, _, _, _, _, _)
MockRows(n, base_price, so, sc, sw, rnd) ==
  IF n = 0 THEN <<>>
  ELSE LET open_p == base_price + rnd.u1 * so
           close_p == open_p + rnd.u2 * sc
           high_p == Max2(open_p, close_p) + rnd.v * sw
           low_p == Min2(open_p, close_p) - rnd.v * sw
       IN <<[open |-> open_p, close |-> close_p, low |-> low_p, high |-> high_p]>>
          \o MockRows(n - 1, close_p, so, sc, sw, rnd)

get_mock_data(rnd) ==
  LET rows == MockRows(15, 10000, 200, 150, 100, rnd) IN
  [kline |-> [dates |-> MockDates(15),
              open |-> [i \in 1..15 |-> rows[i].open],
              close |-> [i \in 1..15 |-> rows[i].close],
              low |-> [i \in 1..15 |-> rows[i].low],
              high |-> [i \in 1..15 |-> rows[i].high]],
   bi |-> <<[x |-> <<0, 3>>, y |-> <<10000, 10200>>, type |-> "up_bi", direction |-> "up"],
            [x |-> <<3, 7>>, y |-> <<10200, 9800>>, type |-> "down_bi", direction |-> "down"],
            [x |-> <<7, 12>>, y |-> <<9800, 10100>>, type |-> "up_bi", direction |-> "up"]>>,
   central_zone |-> <<[x |-> <<4, 8>>, y |-> <<9900, 10100>>, type |-> "zs"]>>,
   segment |-> <<[x |-> <<0, 12>>, y |-> <<10000, 10100>>, type |-> "seg"]>>,
   buy_sell_points |-> <<[kl_idx |-> 12, price |-> 10100, is_buy |-> TRUE, type |-> "buy"],
                         [kl_idx |-> 14, price |-> 10050, is_buy |-> FALSE, type |-> "sell"]>>]

\* fault "klu": the first raw unit's attributes raise, before anything is
\* appended, and the except branch fills in 20 random rows
module_extract_kline_data(kline_data, fault, rnd) ==
  LET U == KluSeq(kline_data) IN
  IF fault = "klu"
  THEN LET rows == MockRows(20, 10000, 300, 200, 150, rnd) IN
       [dates |-> MockDates(20),
        open |-> [i \in 1..20 |-> rows[i].open],
        close |-> [i \in 1..20 |-> rows[i].close],
        low |-> [i \in 1..20 |-> rows[i].low],
        high |-> [i \in 1..20 |-> rows[i].high],
        volume |-> [i \in 1..20 |-> 1000 + 4500 * (rnd.u1 + 1)]]
  ELSE [dates |-> [i \in 1..Len(U) |-> StrOfTime(U[i].time)],
        open |-> [i \in 1..Len(U) |-> U[i].open],
        close |-> [i \in 1..Len(U) |-> U[i].close],
        low |-> [i \in 1..Len(U) |-> U[i].low],
        high |-> [i \in 1..Len(U) |-> U[i].high],
        volume |-> [i \in 1..Len(U) |-> U[i].volume]]

\* bi.begin_klc / bi.end_klc: the merged candles of the boundary raw units.
\* klc_has_close: whether the engine's merged candle has a close attribute.
module_bi_coord(bi) ==
  [x |-> <<bi.begin_klu.klc.idx, bi.end_klu.klc.idx>>,
   y |-> <<bi.begin_klu.klc.close, bi.end_klu.klc.close>>,
   type |-> "bi",
   direction |-> IF bi.dir > 0 THEN "up" ELSE "down"]

module_extract_bi_data(bi_list, klc_has_close) ==
  IF Len(bi_list) > 0 /\ (~AllOk(bi_list) \/ ~klc_has_close)
  THEN <<[x |-> <<0, 5>>, y |-> <<10000, 10500>>, type |-> "up_bi", direction |-> "up"],
         [x |-> <<5, 10>>, y |-> <<10500, 9800>>, type |-> "down_bi", direction |-> "down"]>>
  ELSE [i \in 1..Len(bi_list) |-> module_bi_coord(bi_list[i])]

module_extract_zs_data(zs_list) ==
  IF ~AllOk(zs_list)
  THEN <<[x |-> <<3, 8>>, y |-> <<9800, 10200>>, type |-> "zs"]>>
  ELSE [i \in 1..Len(zs_list) |->
          [x |-> <<zs_list[i].begin.idx, zs_list[i].end.idx>>,
           y |-> <<zs_list[i].low, zs_list[i].high>>, type |-> "zs"]]

module_extract_segment_data(seg_list, klc_has_close) ==
  IF Len(seg_list) > 0 /\ (~AllOk(seg_list) \/ ~klc_has_close)
  THEN <<>>
  ELSE [i \in 1..Len(seg_list) |->
          [x |-> <<seg_list[i].begin_klu.klc.idx, seg_list[i].end_klu.klc.idx>>,
           y |-> <<seg_list[i].begin_klu.klc.close, seg_list[i].end_klu.klc.close>>,
           type |-> "seg"]]

module_extract_bsp_data(bsp_list) ==
  IF ~AllOk(bsp_list)
  THEN <<[kl_idx |-> 12, price |-> 10300, is_buy |-> TRUE, type |-> "buy"],
         [kl_idx |-> 18, price |-> 9800, is_buy |-> FALSE, type |-> "sell"]>>
  ELSE [i \in 1..Len(bsp_list) |->
          [kl_idx |-> bsp_list[i].klu.idx, price |-> bsp_list[i].bi.end_val,
           is_buy |-> bsp_list[i].is_buy, type |-> bsp_list[i].type]]

\* try: kline_data = chan[level] ... except: return _get_mock_data()
module_convert_to_visualization_data(chan, klc_has_close, rnd) ==
  IF chan.fault = "kl_datas" THEN get_mock_data(rnd)
  ELSE [kline |-> module_extract_kline_data(chan.kline_list, chan.fault, rnd),
        bi |-> module_extract_bi_data(chan.bi_list, klc_has_close),
        segment |-> module_extract_segment_data(chan.seg_list, klc_has_close),
        central_zone |-> module_extract_zs_data(chan.zs_list),
        buy_sell_points |-> module_extract_bsp_data(chan.bs_point_lst)]

module_load_chan_data(CHAN_AVAILABLE, code, level, config, start_date, end_date, engine, klc_has_close, rnd) ==
  IF code = "" \/ level = ""
  THEN Outcome(Raise("ValueError", "missing_parameters"), <<>>, <<>>)
  ELSE
  LET start == IF start_date = "" THEN "2023-01-01" ELSE start_date
      end == IF end_date = "" THEN Today ELSE end_date
      request == ChanRequest(baostock_code(code), start, end, level, config)
  IN IF ~CHAN_AVAILABLE
     THEN Outcome(Raise("RuntimeError", "chan_unavailable"), <<>>, <<>>)
     ELSE IF engine.raises
     THEN Outcome(Raise("RuntimeError", "load_failed"),
                  <<"load_error">>, <<request>>)
     ELSE Outcome(Return(module_convert_to_visualization_data(
                           engine.chan, klc_has_close, rnd)),
                  <<>>, <<request>>)

(***************************************************************************)
(* PlotlyChartRenderer (src/chan_viz/chart_render.py).  The y values of a  *)
(* figure are in ten-thousandths, so that 5% of a price range given in     *)
(* hundredths is exact.                                                    *)
(***************************************************************************)

\* The class strings of type2str() and of the mock data, with their
\* characters ('1' in bsp_type looks at them).
TypeChars(t) ==
  CASE t = "" -> <<>>
    [] t = "1" -> <<"1">>
    [] t = "1p" -> <<"1", "p">>
    [] t = "2" -> <<"2">>
    [] t = "2s" -> <<"2", "s">>
    [] t = "3a" -> <<"3", "a">>
    [] t = "3b" -> <<"3", "b">>
    [] t = "2,3a" -> <<"2", ",", "3", "a">>
    [] t = "buy" -> <<"buy_1", "buy_2">>
    [] t = "sell" -> <<"sell_1", "sell_2">>

\* c in bsp_type
InType(c, bsp_type) ==
  \E i \in 1..Len(TypeChars(bsp_type)) : TypeChars(bsp_type)[i] = c

get_bsp_chan_style_label(bsp_type, is_buy) ==
  IF bsp_type = "" THEN (IF is_buy THEN "b?" ELSE "s?")
  ELSE LET prefix == IF is_buy THEN "b" ELSE "s" IN
       "  " \o prefix \o bsp_type

\* the size of the first branch copied to the second
get_bsp_marker_style_copied_size(bsp_type, is_buy) ==
  LET symbol == IF is_buy THEN "triangle-up" ELSE "triangle-down" IN
  IF InType("1", bsp_type) THEN <<14, symbol>>
  ELSE IF InType("2", bsp_type) THEN <<14, symbol>>
  ELSE IF InType("3", bsp_type) THEN <<10, symbol>>
  ELSE <<12, symbol>>

get_bsp_marker_style(bsp_type, is_buy) ==
  LET symbol == IF is_buy THEN "triangle-up" ELSE "triangle-down" IN
  IF InType("1", bsp_type) THEN <<14, symbol>>
  ELSE IF InType("2", bsp_type) THEN <<12, symbol>>
  ELSE IF InType("3", bsp_type) THEN <<10, symbol>>
  ELSE <<12, symbol>>

RECURSIVE MinOf(_, _)
MinOf(list, k) ==
  IF k = Len(list) THEN list[k] ELSE Min2(list[k], MinOf(list, k + 1))

RECURSIVE MaxOf(_, _)
MaxOf(list, k) ==
  IF k = Len(list) THEN list[k] ELSE Max2(list[k], MaxOf(list, k + 1))

\* a price in hundredths as a y value of the figure
ChartY(price) == price * 100

\* the offset of both sides upward
calculate_price_offset_always_up(kline_data, price, is_buy) ==
  LET min_price == MinOf(kline_data.low, 1)
      max_price == MaxOf(kline_data.high, 1)
      price_range == max_price - min_price
      offset == (ChartY(price_range) * 5) \div 100
  IN offset

\* price_range * 0.05, negative for a buy
calculate_price_offset(kline_data, price, is_buy) ==
  LET min_price == MinOf(kline_data.low, 1)
      max_price == MaxOf(kline_data.high, 1)
      price_range == max_price - min_price
      offset == (ChartY(price_range) * 5) \div 100
  IN IF is_buy THEN -offset ELSE offset

\* dates[idx] for an idx that passed idx < len(dates): a negative idx counts
\* from the end
DateAt(dates, idx) ==
  IF idx >= 0 THEN dates[idx + 1] ELSE dates[Len(dates) + idx + 1]

\* dates[idx] raises IndexError
OutOfList(dates, idx) == idx < -Len(dates)

\* d.get(key, default)
GetOr(d, key, default) == IF key \in DOMAIN d THEN d[key] ELSE default

\* 'key' in data and data['key']
Present(data, key) == key \in DOMAIN data /\ Len(data[key]) > 0

\* the traces of the strokes (dash: every uncertain line is dashed)
LineTraces(dates, lines) ==
  LET Kept(x) == SelectSeq(x, LAMBDA idx : idx < Len(dates))
      Drawn(line) == Len(Kept(line.x)) = Len(line.y)
      shown == SelectSeq(lines, Drawn)
  IN [i \in 1..Len(shown) |->
        [x |-> [j \in 1..Len(Kept(shown[i].x)) |-> DateAt(dates, Kept(shown[i].x)[j])],
         y |-> [j \in 1..Len(shown[i].y) |-> ChartY(shown[i].y[j])],
         dash |-> ~GetOr(shown[i], "is_sure", TRUE)]]

ZoneTraces(dates, zones) ==
  LET Drawn(zs) == Len(zs.x) >= 2 /\ \A j \in 1..Len(zs.x) : zs.x[j] < Len(dates)
      shown == SelectSeq(zones, Drawn)
  IN [i \in 1..Len(shown) |->
        [x |-> <<DateAt(dates, shown[i].x[1]), DateAt(dates, shown[i].x[2])>>,
         y |-> <<ChartY(shown[i].y[1]), ChartY(shown[i].y[2])>>,
         dash |-> IF GetOr(shown[i], "is_sure", TRUE) THEN "dot" ELSE "dash"]]

\* one marker and one text label per signal with kl_idx < len(dates)
SignalTraces(kline, signals) ==
  LET dates == kline.dates
      Drawn(bsp) == bsp.kl_idx < Len(dates)
      shown == SelectSeq(signals, Drawn)
      Y(bsp) == ChartY(bsp.price) + calculate_price_offset(kline, bsp.price, bsp.is_buy)
      T(bsp) == GetOr(bsp, "type", "")
  IN [i \in 1..Len(shown) |->
        [x |-> DateAt(dates, shown[i].kl_idx),
         y |-> Y(shown[i]),
         size |-> get_bsp_marker_style(T(shown[i]), shown[i].is_buy)[1],
         symbol |-> get_bsp_marker_style(T(shown[i]), shown[i].is_buy)[2],
         color |-> IF shown[i].is_buy THEN "bsp_buy" ELSE "bsp_sell",
         hover |-> <<IF shown[i].is_buy THEN "buy" ELSE "sell", T(shown[i])>>,
         text |-> get_bsp_chan_style_label(T(shown[i]), shown[i].is_buy)]]

\* an index the figure would look up lies before the start of dates
RaisesIndexError(data) ==
  LET dates == data.kline.dates
      Lines(key) == IF Present(data, key) THEN data[key] ELSE <<>>
      BadLine(line) == \E j \in 1..Len(line.x) : OutOfList(dates, line.x[j])
      BadZone(zs) ==
        /\ Len(zs.x) >= 2 /\ \A j \in 1..Len(zs.x) : zs.x[j] < Len(dates)
        /\ (OutOfList(dates, zs.x[1]) \/ OutOfList(dates, zs.x[2]))
  IN \/ \E i \in 1..Len(Lines("bi")) : BadLine(Lines("bi")[i])
     \/ \E i \in 1..Len(Lines("segment")) : BadLine(Lines("segment")[i])
     \/ \E i \in 1..Len(Lines("central_zone")) : BadZone(Lines("central_zone")[i])
     \/ \E i \in 1..Len(Lines("buy_sell_points")) :
          OutOfList(dates, Lines("buy_sell_points")[i].kl_idx)

create_chan_chart(data, level, code) ==
  LET dates == data.kline.dates
      Lines(key) == IF Present(data, key) THEN data[key] ELSE <<>>
  IN IF RaisesIndexError(data) THEN Raise("IndexError", "dates")
     ELSE Return(
       [candles |-> [x |-> dates, open |-> data.kline.open, high |-> data.kline.high,
                     low |-> data.kline.low, close |-> data.kline.close],
        legend |-> <<"kline">>
                   \o (IF Present(data, "bi") THEN <<"bi">> ELSE <<>>)
                   \o (IF Present(data, "segment") THEN <<"seg">> ELSE <<>>)
                   \o (IF Present(data, "central_zone") THEN <<"zs">> ELSE <<>>)
                   \o (IF Present(data, "buy_sell_points")
                       THEN <<"buy", "sell", "class_1", "class_2", "class_3">>
                       ELSE <<>>),
        strokes |-> LineTraces(dates, Lines("bi")),
        segments |-> LineTraces(dates, Lines("segment")),
        zones |-> ZoneTraces(dates, Lines("central_zone")),
        signals |-> SignalTraces(data.kline, Lines("buy_sell_points")),
        title |-> IF code # "" THEN <<"title", code>> ELSE <<"title">>])

(***************************************************************************)
(* The state machine: one call at a time on a constructed service.         *)
(***************************************************************************)

VARIABLES
  chan_available,   \* self.chan_available = CHAN_AVAILABLE, set at import
  pc,               \* "idle" or "returned"
  call,             \* the call in progress: operation and arguments
  ret,              \* its outcome
  session_state,    \* st.session_state: a dictionary, empty at first
  cache,            \* the entries of st.cache_data: key -> value, written
  now,              \* the clock, in ticks of half an hour
  model             \* the engine result a caller holds on to

vars == <<chan_available, pc, call, ret, session_state, cache, now, model>>

\* an empty dictionary
EmptyDict == [k \in {} |-> TRUE]

\* the caller holds no engine result
NoModel == [held |-> FALSE]

NoCall == [op |-> "none"]

NoOutcome == Outcome([kind |-> "none"], <<>>, <<>>)

\* the engine is not consulted by this call
NotConsulted == [raises |-> FALSE, consulted |-> FALSE]

\* The canonical result: aggregates of sizes 2, 3, 1 and one up-stroke from
\* raw unit 0 to raw unit 5.
CanonicalChan ==
  LET kl == KlineList(<<2, 3, 1>>) U == KluSeq(kl) IN
  Chan(kl, <<Line(U[1], U[6], Rising, 1, TRUE, TRUE)>>, <<>>, <<>>, <<>>, "none")

\* The engine is consulted only by a call with code and level on an
\* available engine.  Every result is explored for a request with both
\* dates; a request with a defaulted date sees the failure and one result.
EngineSizes(available, code, level, start_date, end_date) ==
  IF ~available \/ code = "" \/ level = "" THEN {<<>>}
  ELSE IF start_date = "" \/ end_date = "" THEN {<<2, 3, 1>>}
  ELSE SizeSeqs

EngineOutcomes(available, code, level, start_date, end_date, sizes) ==
  IF ~available \/ code = "" \/ level = "" THEN {NotConsulted}
  ELSE IF start_date = "" \/ end_date = ""
  THEN {EngineRaises, Delivers(CanonicalChan)}
  ELSE {EngineRaises} \cup {Delivers(c) : c \in ChansOver(KlineList(sizes))}

\* The parameter dictionary the caller compiles the configuration from:
\* every dictionary where the engine fails or delivers the canonical result
\* (the configuration reaches the engine's request and nothing else).
LoadInputs(engine) ==
  IF engine = NotConsulted \/ engine.raises THEN StInputs
  ELSE IF engine.chan = CanonicalChan THEN StInputs
  ELSE {<<>>}

\* The engine build and the random draws matter to the module-level revision
\* only: both candle builds where a stroke or segment is read, every draw
\* where mock rows are generated.
ModuleChoices(engine) ==
  IF engine = NotConsulted \/ engine.raises
  THEN {[klc_has_close |-> TRUE, rnd |-> CHOOSE r \in Rnds : TRUE]}
  ELSE IF engine.chan.fault \in {"kl_datas", "klu"}
  THEN {[klc_has_close |-> TRUE, rnd |-> r] : r \in Rnds}
  ELSE IF engine.chan.bi_list = <<>> /\ engine.chan.seg_list = <<>>
  THEN {[klc_has_close |-> TRUE, rnd |-> CHOOSE r \in Rnds : TRUE]}
  ELSE {[klc_has_close |-> h, rnd |-> CHOOSE r \in Rnds : TRUE] : h \in BOOLEAN}

\* Zone lists handed to _extract_zs_data by a direct caller, with the lookup
\* of the aggregates U comes from: a zone over the whole list, and zones one
\* of whose boundary raw units is not a unit of the list (idx -1, idx N).
ZoneCallLists(U) ==
  LET N == Len(U)
      Before == Klu(-1, -1, -1)
      After == Klu(N, N, N)
      Z(b, e) == Zone(b, e, 9900, 10100, TRUE, TRUE)
  IN {<<>>, <<Z(Before, After)>>}
     \cup (IF N < 1 THEN {}
           ELSE {<<Z(U[1], U[N])>>, <<Z(U[1], After)>>, <<Z(Before, U[N])>>,
                 <<Z(U[1], U[N]), Z(U[N], After)>>})

\* Signal lists handed to _extract_bsp_data by a direct caller: signals on
\* the end raw unit of their stroke, and signals whose own raw unit k is not
\* the end raw unit of their stroke (the first unit; the first unit of the
\* last merged candle).
BspCallLists(kl) ==
  LET U == KluSeq(kl)
      N == Len(U)
      Stroke == Line(U[1], U[N], Rising, 1, TRUE, TRUE)
      B(k, buy, t) == BsPoint(k, Stroke, buy, t, TRUE)
      Last == kl[Len(kl)].lst
  IN IF N < 2 THEN {<<>>}
     ELSE {<<>>, <<B(U[N], TRUE, "1")>>, <<B(U[1], FALSE, "2")>>,
           <<B(U[N], TRUE, "1"), B(U[1], TRUE, "3a")>>}
          \cup (IF Len(Last) < 2 THEN {} ELSE {<<B(Last[1], TRUE, "1")>>})

\* The class strings a dataset carries: type2str() of the engine's classes,
\* the empty string, and the types of the mock data.
RenderTypes == {"1", "1p", "2", "2s", "3a", "3b", "2,3a", "", "buy", "sell"}

\* A series of 11 raw units with min(low) = 40 and max(high) = 60.
ScenarioKline ==
  [dates |-> [i \in 1..11 |-> StrOfTime(i - 1)],
   open |-> [i \in 1..11 |-> 5000],
   close |-> [i \in 1..11 |-> 5000],
   low |-> [i \in 1..11 |-> IF i = 1 THEN 4000 ELSE 4500],
   high |-> [i \in 1..11 |-> IF i = 2 THEN 6000 ELSE 5500],
   volume |-> [i \in 1..11 |-> 1000]]

Signal(i, p, buy, t) == [kl_idx |-> i, price |-> p, is_buy |-> buy, type |-> t]

Dataset(kline, signals) ==
  [kline |-> kline, bi |-> <<>>, segment |-> <<>>, central_zone |-> <<>>,
   buy_sell_points |-> signals]

\* The datasets handed to create_chan_chart: the series above with one signal
\* at raw index 10 and price 50 or with two signals, of every side and class
\* string, with a signal index at and beyond either end of the series; the
\* series with a stroke, a segment and a zone over the same two indices,
\* inside the series and beyond either end; the
\* conversions of the engine's results over aggregates of sizes 2, 3, 1; the
\* mock datasets.
ChartInputs ==
  {Dataset(ScenarioKline, <<Signal(10, 5000, b, t)>>) :
     b \in BOOLEAN, t \in RenderTypes}
  \cup {Dataset(ScenarioKline, <<Signal(10, 5000, b1, t1), Signal(3, 4800, b2, t2)>>) :
          b1 \in BOOLEAN, t1 \in RenderTypes, b2 \in BOOLEAN, t2 \in RenderTypes}
  \cup {Dataset(ScenarioKline, <<Signal(i, 5000, TRUE, "1")>>) : i \in {-12, -11, -1, 0, 11}}
  \cup {[Dataset(ScenarioKline, <<>>) EXCEPT
           !.bi = <<[x |-> x, y |-> <<4800, 5200>>, type |-> "bi",
                     direction |-> "up", is_sure |-> TRUE]>>,
           !.segment = <<[x |-> x, y |-> <<4800, 5200>>, type |-> "seg",
                          direction |-> "up", is_sure |-> TRUE]>>,
           !.central_zone = <<[x |-> x, y |-> <<4800, 5200>>, type |-> "zs",
                               is_sure |-> TRUE]>>] :
          x \in {<<0, 10>>, <<3, 11>>, <<-1, 3>>, <<-12, 3>>}}
  \cup {convert_to_visualization_data(c).res.value :
          c \in {d \in ChansOver(KlineList(<<2, 3, 1>>)) :
                   convert_to_visualization_data(d).res.kind = "return"}}
  \cup {get_mock_data(rnd) : rnd \in Rnds}

Init ==
  /\ chan_available \in BOOLEAN
  /\ pc = "idle"
  /\ call = NoCall
  /\ ret = NoOutcome
  /\ session_state = EmptyDict
  /\ cache = EmptyDict
  /\ now = 0
  /\ model = NoModel

LoadChanData ==
  /\ pc = "idle"
  /\ \E code \in Codes, level \in Levels, start_date \in Dates, end_date \in Dates :
       \E sizes \in EngineSizes(chan_available, code, level, start_date, end_date) :
       \E engine \in EngineOutcomes(chan_available, code, level, start_date,
                                    end_date, sizes) :
       \E st_inputs \in LoadInputs(engine) :
         /\ call' = [op |-> "load_chan_data", code |-> code, level |-> level,
                     config |-> from_streamlit(st_inputs),
                     start_date |-> start_date, end_date |-> end_date,
                     engine |-> engine]
         /\ ret' = load_chan_data(chan_available, code, level,
                                  from_streamlit(st_inputs), start_date,
                                  end_date, engine)
  /\ pc' = "returned"
  /\ UNCHANGED <<chan_available, session_state, cache, now, model>>

ModuleLoadChanData ==
  /\ pc = "idle"
  /\ \E code \in Codes, level \in Levels, start_date \in Dates, end_date \in Dates :
       \E sizes \in EngineSizes(chan_available, code, level, start_date, end_date) :
       \E engine \in EngineOutcomes(chan_available, code, level, start_date,
                                    end_date, sizes) :
         \E m \in ModuleChoices(engine) :
           /\ call' = [op |-> "module_load_chan_data", code |-> code,
                       level |-> level, config |-> from_streamlit(<<>>),
                       start_date |-> start_date,
                       end_date |-> end_date, engine |-> engine,
                       klc_has_close |-> m.klc_has_close, rnd |-> m.rnd]
           /\ ret' = module_load_chan_data(chan_available, code, level,
                       from_streamlit(<<>>), start_date, end_date, engine,
                       m.klc_has_close, m.rnd)
  /\ pc' = "returned"
  /\ UNCHANGED <<chan_available, session_state, cache, now, model>>

BuildKluIndexMapping ==
  /\ pc = "idle"
  /\ \E sizes \in SizeSeqs :
       /\ call' = [op |-> "build_klu_index_mapping",
                   kline_list |-> KlineList(sizes)]
       /\ ret' = Outcome(Return(build_klu_index_mapping(KlineList(sizes))),
                         <<>>, <<>>)
  /\ pc' = "returned"
  /\ UNCHANGED <<chan_available, session_state, cache, now, model>>

ExtractZsData ==
  /\ pc = "idle"
  /\ \E sizes \in SizeSeqs :
       \E zs_list \in ZoneCallLists(KluSeq(KlineList(sizes))) :
         /\ call' = [op |-> "extract_zs_data", kline_list |-> KlineList(sizes),
                     zs_list |-> zs_list]
         /\ ret' = Outcome(extract_zs_data(zs_list,
                             build_klu_index_mapping(KlineList(sizes))),
                           <<>>, <<>>)
  /\ pc' = "returned"
  /\ UNCHANGED <<chan_available, session_state, cache, now, model>>

ExtractBspData ==
  /\ pc = "idle"
  /\ \E sizes \in SizeSeqs :
       \E bsp_list \in BspCallLists(KlineList(sizes)) :
       \E fault \in {"none", "getSortedBspList"} :
         LET r == extract_bsp_data(bsp_list, fault) IN
         /\ call' = [op |-> "extract_bsp_data", kline_list |-> KlineList(sizes),
                     bsp_list |-> bsp_list, fault |-> fault]
         /\ ret' = Outcome(Return(r.value), r.printed, <<>>)
  /\ pc' = "returned"
  /\ UNCHANGED <<chan_available, session_state, cache, now, model>>

CreateChanChart ==
  /\ pc = "idle"
  /\ \E data \in ChartInputs, code \in Codes :
       /\ call' = [op |-> "create_chan_chart", data |-> data,
                   level |-> "K_DAY", code |-> code]
       /\ ret' = Outcome(create_chan_chart(data, "K_DAY", code), <<>>, <<>>)
  /\ pc' = "returned"
  /\ UNCHANGED <<chan_available, session_state, cache, now, model>>

\* the caller takes the outcome; the service is ready for the next call
Finish ==
  /\ pc = "returned"
  /\ pc' = "idle"
  /\ call' = NoCall
  /\ ret' = NoOutcome
  /\ UNCHANGED <<chan_available, session_state, cache, now, model>>

Next ==
  \/ LoadChanData
  \/ ModuleLoadChanData
  \/ CreateChanChart
  \/ BuildKluIndexMapping
  \/ ExtractZsData
  \/ ExtractBspData
  \/ Finish

Spec == Init /\ [][Next]_vars

(***************************************************************************)
(* st.cache_data(ttl=3600), the decorator of load_chan_data and of the     *)
(* module-level functions: a call whose key has an entry younger than the  *)
(* ttl returns the stored value without running the function; otherwise    *)
(* the function runs and the value it returns is stored under the key,     *)
(* with the time of writing.  A raised exception stores nothing.           *)
(***************************************************************************)

\* the largest value of the clock
MaxClock == 3

\* ttl=3600 seconds, in ticks of half an hour
CacheTtl == 2

\* d[k] = v
Put(d, k, v) == [x \in DOMAIN d \cup {k} |-> IF x = k THEN v ELSE d[x]]

Alive(entries, key, t) ==
  key \in DOMAIN entries /\ t - entries[key].written < CacheTtl

\* the entries that are still alive at time t
Expire(entries, t) ==
  [k \in {x \in DOMAIN entries : t - entries[x].written < CacheTtl} |-> entries[k]]

\* time passes; entries that reach the ttl are dropped
Tick ==
  /\ now < MaxClock
  /\ now' = now + 1
  /\ cache' = Expire(cache, now + 1)
  /\ UNCHANGED <<chan_available, pc, call, ret, session_state, model>>

(***************************************************************************)
(* A caller that holds one engine result and runs the mapper, the          *)
(* extractors and the conversions on it again and again, as the tests do   *)
(* with the kline_list they keep on the class.                             *)
(***************************************************************************)

\* A result with every kind of overlay: two strokes meeting at raw unit 3,
\* a provisional segment, a zone and two signals.
FullChan ==
  LET kl == KlineList(<<2, 3, 1>>)
      U == KluSeq(kl)
      up == Line(U[1], U[4], PairFrom(10000, 1), 1, TRUE, TRUE)
      down == Line(U[4], U[6], PairFrom(10500, -1), -1, FALSE, TRUE)
  IN Chan(kl, <<up, down>>, <<Line(U[1], U[6], Rising, 1, FALSE, TRUE)>>,
          <<Zone(U[2], U[5], 9900, 10100, TRUE, TRUE)>>,
          <<BsPoint(U[4], up, FALSE, "1", TRUE), BsPoint(U[6], down, TRUE, "2", TRUE)>>,
          "none")

HeldModels ==
  {CanonicalChan, FullChan,
   Chan(KlineList(<<2, 3, 1>>), <<>>, <<>>, <<>>, <<>>, "kl_datas"),
   Chan(KlineList(<<2, 3, 1>>), <<>>, <<>>, <<>>, <<>>, "klu")}

\* getSortedBspList() replaced by a sort of the signal list in place, latest
\* signal first
held_after_sorted_in_place(op, chan) ==
  IF op = "extract_bsp_data" /\ Len(chan.bs_point_lst) = 2
  THEN [chan EXCEPT !.bs_point_lst = <<chan.bs_point_lst[2], chan.bs_point_lst[1]>>]
  ELSE chan

\* The engine result after a call of the mapper, an extractor or a
\* conversion: they iterate the lists and read attributes and accessors
\* (lst, idx, get_begin_klu(), get_end_val(), is_up(), getSortedBspList(),
\* ...); none assigns to an object of the result, appends to or sorts one
\* of its lists.
held_after(op, chan) ==
  chan

\* _convert_to_visualization_data(chan, level) of the module-level revision
\* behind its decorator: the key is the pair of arguments
cached_module_convert(entries, t, chan, level, klc_has_close, rnd) ==
  LET key == <<chan, level>> IN
  IF Alive(entries, key, t)
  THEN [value |-> entries[key].value, cache |-> entries, hit |-> TRUE]
  ELSE LET v == module_convert_to_visualization_data(chan, klc_has_close, rnd) IN
       [value |-> v,
        cache |-> Put(entries, key, [args |-> key, value |-> v, written |-> t]),
        hit |-> FALSE]

HeldInit ==
  /\ chan_available = TRUE
  /\ pc = "idle"
  /\ call = NoCall
  /\ ret = NoOutcome
  /\ session_state = EmptyDict
  /\ cache = EmptyDict
  /\ now = 0
  /\ model \in HeldModels

HeldBuildKluIndexMapping ==
  /\ call' = [op |-> "build_klu_index_mapping", chan |-> model]
  /\ ret' = Outcome(Return(build_klu_index_mapping(model.kline_list)), <<>>, <<>>)
  /\ model' = held_after("build_klu_index_mapping", model)
  /\ UNCHANGED <<chan_available, pc, session_state, cache, now>>

\* one of the five extractors of the class, on the lists of the held result
HeldExtract ==
  /\ model.fault # "kl_datas"
  /\ \E op \in {"extract_kline_data", "extract_bi_data", "extract_segment_data",
                 "extract_zs_data", "extract_bsp_data"} :
       LET map == build_klu_index_mapping(model.kline_list)
           bsp == extract_bsp_data(model.bs_point_lst, model.fault)
       IN /\ call' = [op |-> op, chan |-> model]
          /\ ret' = CASE op = "extract_kline_data" ->
                            Outcome(extract_kline_data(model.kline_list, model.fault),
                                    <<>>, <<>>)
                       [] op = "extract_bi_data" ->
                            Outcome(extract_bi_data(model.bi_list, map), <<>>, <<>>)
                       [] op = "extract_segment_data" ->
                            Outcome(extract_segment_data(model.seg_list, map), <<>>, <<>>)
                       [] op = "extract_zs_data" ->
                            Outcome(extract_zs_data(model.zs_list, map), <<>>, <<>>)
                       [] OTHER -> Outcome(Return(bsp.value), bsp.printed, <<>>)
          /\ model' = held_after(op, model)
  /\ UNCHANGED <<chan_available, pc, session_state, cache, now>>

\* the conversion of the class
HeldConvert ==
  /\ LET c == convert_to_visualization_data(model) IN
     /\ call' = [op |-> "convert_to_visualization_data", chan |-> model]
     /\ ret' = Outcome(c.res, c.printed, <<>>)
  /\ model' = held_after("convert_to_visualization_data", model)
  /\ UNCHANGED <<chan_available, pc, session_state, cache, now>>

\* the conversion of the module-level revision; a run of it draws from the
\* random module where it generates mock rows
HeldModuleConvert ==
  /\ \E m \in ModuleChoices(Delivers(model)) :
       LET c == cached_module_convert(cache, now, model, "K_DAY",
                                      m.klc_has_close, m.rnd)
       IN /\ call' = [op |-> "module_convert_to_visualization_data", chan |-> model]
          /\ ret' = Outcome(Return(c.value), <<>>, <<>>)
          /\ cache' = c.cache
  /\ model' = held_after("module_convert_to_visualization_data", model)
  /\ UNCHANGED <<chan_available, pc, session_state, now>>

HeldNext ==
  \/ HeldBuildKluIndexMapping
  \/ HeldExtract
  \/ HeldConvert
  \/ HeldModuleConvert
  \/ Tick

HeldSpec == HeldInit /\ [][HeldNext]_vars

(***************************************************************************)
(* The application: ChartService.generate_chart and the script of          *)
(* run_app.py, which Streamlit reruns from the top at every interaction.   *)
(* Both load through the decorated load_chan_data of the class, whose      *)
(* first parameter _self is left out of the key by its underscore.         *)
(***************************************************************************)

\* the key leaves out the configuration
cached_load_chan_data_config_unkeyed(entries, t, available, code, level, config, start_date, end_date, engine) ==
  LET key == <<code, level, start_date, end_date>>
      args == <<code, level, config, start_date, end_date>>
  IN IF Alive(entries, key, t)
     THEN [out |-> Outcome(Return(entries[key].value), <<>>, <<>>), cache |-> entries]
     ELSE LET o == load_chan_data(available, code, level, config,
                                  start_date, end_date, engine)
          IN [out |-> o,
              cache |-> IF o.res.kind = "return"
                        THEN Put(entries, key, [args |-> args, value |-> o.res.value,
                                                written |-> t])
                        ELSE entries]

\* load_chan_data behind its decorator: the key is the tuple of the
\* arguments code, level, config, start_date, end_date
cached_load_chan_data(entries, t, available, code, level, config, start_date, end_date, engine) ==
  LET key == <<code, level, config, start_date, end_date>> IN
  IF Alive(entries, key, t)
  THEN [out |-> Outcome(Return(entries[key].value), <<>>, <<>>), cache |-> entries]
  ELSE LET o == load_chan_data(available, code, level, config,
                               start_date, end_date, engine)
       IN [out |-> o,
           cache |-> IF o.res.kind = "return"
                     THEN Put(entries, key, [args |-> key, value |-> o.res.value,
                                             written |-> t])
                     ELSE entries]

\* What a generation reports: nothing is returned; load is the outcome of
\* the load, errors the messages shown with st.error, attempted whether the
\* generation block was entered.
AppOutcome(load, render, attempted) ==
  [res |-> Return("None"), printed |-> load.printed,
   engine_calls |-> load.engine_calls, load |-> load.res, render |-> render,
   errors |-> IF ~attempted THEN <<>>
              ELSE IF load.res.kind = "raise" THEN <<load.res.msg>>
              ELSE IF render.kind = "raise" THEN <<render.msg>>
              ELSE <<>>,
   attempted |-> attempted]

\* the figure of the loaded data, when there is one
Figure(load, level, code) ==
  IF load.res.kind = "return" THEN create_chan_chart(load.res.value, level, code)
  ELSE [kind |-> "none"]

\* the dataset is stored as soon as it is loaded, before the figure is made
generate_chart_data_stored_first(session, entries, t, available, code, level, start_date, end_date, chan_params, engine) ==
  LET chan_config == from_streamlit(chan_params)
      l == cached_load_chan_data(entries, t, available, code, level,
                                 chan_config, start_date, end_date, engine)
      fig == Figure(l.out, level, code)
      loaded == IF l.out.res.kind = "return"
                THEN Put(session, "chart_data", l.out.res.value) ELSE session
  IN [session_state |->
        IF fig.kind = "return"
        THEN Put(Put(loaded, "chart_figure", fig.value), "last_update", t)
        ELSE loaded,
      cache |-> l.cache,
      ret |-> AppOutcome(l.out, fig, TRUE)]

\* ChartService.generate_chart
generate_chart(session, entries, t, available, code, level, start_date, end_date, chan_params, engine) ==
  LET chan_config == from_streamlit(chan_params)
      l == cached_load_chan_data(entries, t, available, code, level,
                                 chan_config, start_date, end_date, engine)
      fig == Figure(l.out, level, code)
  IN [session_state |->
        IF fig.kind = "return"
        THEN Put(Put(Put(session, "chart_figure", fig.value),
                     "chart_data", l.out.res.value), "last_update", t)
        ELSE session,
      cache |-> l.cache,
      ret |-> AppOutcome(l.out, fig, TRUE)]

\* ChartService.has_chart
has_chart(session) == "chart_figure" \in DOMAIN session

\* the flag is cleared on entering the generation block
main_flag_cleared_first(session, entries, t, available, button, code, selected_level, start_date, end_date, config_params, engine) ==
  LET pressed == IF button = "sidebar" THEN Put(session, "refresh_chart", TRUE)
                 ELSE session
      attempted == button = "generate" \/ GetOr(pressed, "refresh_chart", FALSE)
      entered == IF attempted THEN Put(pressed, "refresh_chart", FALSE) ELSE pressed
      chan_config == from_streamlit(config_params)
      l == IF attempted
           THEN cached_load_chan_data(entries, t, available, code,
                                      selected_level, chan_config, start_date,
                                      end_date, engine)
           ELSE [out |-> NoOutcome, cache |-> entries]
      fig == Figure(l.out, selected_level, code)
  IN [session_state |->
        IF fig.kind = "return"
        THEN Put(Put(Put(entered, "chart_figure", fig.value),
                     "chart_data", l.out.res.value), "last_update", t)
        ELSE entered,
      cache |-> l.cache,
      ret |-> AppOutcome(l.out, fig, attempted)]

\* One run of the script of run_app.py.  button is the button whose click
\* caused the rerun, if any: st.button is true in that run only.
main(session, entries, t, available, button, code, selected_level, start_date, end_date, config_params, engine) ==
  LET pressed == IF button = "sidebar" THEN Put(session, "refresh_chart", TRUE)
                 ELSE session
      attempted == button = "generate" \/ GetOr(pressed, "refresh_chart", FALSE)
      chan_config == from_streamlit(config_params)
      l == IF attempted
           THEN cached_load_chan_data(entries, t, available, code,
                                      selected_level, chan_config, start_date,
                                      end_date, engine)
           ELSE [out |-> NoOutcome, cache |-> entries]
      fig == Figure(l.out, selected_level, code)
  IN [session_state |->
        IF fig.kind = "return"
        THEN Put(Put(Put(Put(pressed, "chart_figure", fig.value),
                         "chart_data", l.out.res.value), "last_update", t),
                 "refresh_chart", FALSE)
        ELSE pressed,
      cache |-> l.cache,
      ret |-> AppOutcome(l.out, fig, attempted)]

\* A result whose signal sits on a raw unit before the series: the load
\* returns it and create_chan_chart raises IndexError on it.
StrayChan ==
  LET kl == KlineList(<<2, 3, 1>>)
      U == KluSeq(kl)
      up == Line(U[1], U[6], Rising, 1, TRUE, TRUE)
  IN Chan(kl, <<up>>, <<>>, <<>>, <<BsPoint(Klu(-7, -7, -7), up, FALSE, "1", TRUE)>>,
          "none")

\* The parameter dictionaries of the application's requests
AppInputs ==
  {Checkboxes(TRUE, TRUE, TRUE, TRUE, TRUE, TRUE),
   Checkboxes(FALSE, TRUE, TRUE, FALSE, TRUE, TRUE)}

\* What the engine does when the load asks it: the load asks when the
\* parameters are there, the engine is available and no entry is alive.
AppEngineOutcomes(attempted, code, level, config, start_date, end_date) ==
  IF attempted /\ chan_available /\ code # "" /\ level # ""
     /\ ~Alive(cache, <<code, level, config, start_date, end_date>>, now)
  THEN {EngineRaises, Delivers(CanonicalChan), Delivers(FullChan), Delivers(StrayChan)}
  ELSE {NotConsulted}

AppInit ==
  /\ chan_available \in BOOLEAN
  /\ pc = "idle"
  /\ call = NoCall
  /\ ret = NoOutcome
  /\ session_state = EmptyDict
  /\ cache = EmptyDict
  /\ now = 0
  /\ model = NoModel

GenerateChart ==
  /\ \E code \in Codes, chan_params \in AppInputs :
       \E engine \in AppEngineOutcomes(TRUE, code, "K_DAY", from_streamlit(chan_params),
                                        "2023-06-01", "2023-06-01") :
       \E g \in {generate_chart(session_state, cache, now, chan_available, code,
                                 "K_DAY", "2023-06-01", "2023-06-01", chan_params,
                                 engine)} :
            /\ call' = [op |-> "generate_chart", code |-> code, level |-> "K_DAY",
                        start_date |-> "2023-06-01", end_date |-> "2023-06-01",
                        chan_params |-> chan_params, engine |-> engine]
            /\ ret' = g.ret
            /\ session_state' = g.session_state
            /\ cache' = g.cache
  /\ UNCHANGED <<chan_available, pc, now, model>>

Main ==
  /\ \E button \in {"none", "sidebar", "generate"}, config_params \in AppInputs :
       LET pressed == button = "sidebar" \/ button = "generate"
                      \/ GetOr(session_state, "refresh_chart", FALSE)
       IN
       \E engine \in AppEngineOutcomes(pressed, "000001.SZ", "K_DAY",
                                        from_streamlit(config_params),
                                        "2023-06-01", "2023-06-01") :
       \E m \in {main(session_state, cache, now, chan_available, button,
                       "000001.SZ", "K_DAY", "2023-06-01", "2023-06-01",
                       config_params, engine)} :
            /\ call' = [op |-> "main", button |-> button, code |-> "000001.SZ",
                        level |-> "K_DAY", start_date |-> "2023-06-01",
                        end_date |-> "2023-06-01", chan_params |-> config_params,
                        engine |-> engine]
            /\ ret' = m.ret
            /\ session_state' = m.session_state
            /\ cache' = m.cache
  /\ UNCHANGED <<chan_available, pc, now, model>>

AppNext ==
  \/ GenerateChart
  \/ Main
  \/ Tick

AppSpec == AppInit /\ [][AppNext]_vars

(***************************************************************************)
(* Properties                                                              *)
(***************************************************************************)

Returned(op) == pc = "returned" /\ call.op = op

\* a load call that consulted the engine and got a result from it
Delivered(op) ==
  /\ Returned(op)
  /\ ret.engine_calls # <<>>
  /\ ~call.engine.raises

AllNonEmpty(kline_list) ==
  \A k \in 1..Len(kline_list) : Len(kline_list[k].lst) > 0

\* C1: for non-empty aggregates the mapper gives aggregate k the range
\* [sum of the sizes before k, that sum + size(k) - 1]; the ranges ascend and
\* partition [0, totalRawUnits); sizes [2,3,1] give [0,1],[2,4],[5,5] of 6.
MapperPartitions ==
  (Returned("build_klu_index_mapping") /\ AllNonEmpty(call.kline_list)) =>
    LET kl == call.kline_list
        sizes == SizesOf(kl)
        n == Len(kl)
        total == Len(KluSeq(kl))
        map == ret.res.value
    IN /\ ret.res.kind = "return"
       /\ DOMAIN map = 0..(n - 1)
       /\ \A k \in 0..(n - 1) :
            map[k] = <<SumSizes(sizes, k), SumSizes(sizes, k) + sizes[k + 1] - 1>>
       /\ \A k \in 0..(n - 2) : map[k][2] + 1 = map[k + 1][1]
       /\ \A g \in 0..(total - 1) :
            Cardinality({k \in 0..(n - 1) : map[k][1] <= g /\ g <= map[k][2]}) = 1
       /\ \A k \in 0..(n - 1) : 0 <= map[k][1] /\ map[k][2] < total
       /\ (sizes = <<2, 3, 1>>) =>
            /\ map = (0 :> <<0, 1>> @@ 1 :> <<2, 4>> @@ 2 :> <<5, 5>>)
            /\ total = 6

MapperPartitionsSeen ==
  /\ Returned("build_klu_index_mapping")
  /\ SizesOf(call.kline_list) = <<2, 3, 1>>
  /\ ret.res.value[1] = <<2, 4>>

\* the lines of an engine result are extracted with raw-unit precision
PreciseLines(lines, coords) ==
  /\ Len(coords) = Len(lines)
  /\ \A i \in 1..Len(lines) :
       /\ coords[i].x = <<lines[i].begin_klu.idx, lines[i].end_klu.idx>>
       /\ coords[i].y = <<lines[i].begin_val, lines[i].end_val>>

\* C2: every extracted stroke and segment has the global raw-unit indices of
\* its precise boundary raw units as x and its precise boundary prices as y,
\* in the class and in the module-level revision; the stroke from raw unit 0
\* (100) to raw unit 5 (105) extracts to x = [0,5], y = [100,105], "up".
LinesHaveRawUnitPrecision ==
  \A op \in {"load_chan_data", "module_load_chan_data"} :
    (Delivered(op) /\ ret.res.kind = "return"
       /\ call.engine.chan.fault = "none"
       /\ AllOk(call.engine.chan.bi_list) /\ AllOk(call.engine.chan.seg_list)
       /\ (op = "module_load_chan_data" => call.klc_has_close)) =>
      /\ PreciseLines(call.engine.chan.bi_list, ret.res.value.bi)
      /\ PreciseLines(call.engine.chan.seg_list, ret.res.value.segment)
      /\ (call.engine.chan = CanonicalChan) =>
           /\ ret.res.value.bi[1].x = <<0, 5>>
           /\ ret.res.value.bi[1].y = <<10000, 10500>>
           /\ ret.res.value.bi[1].direction = "up"

\* direction is "up" exactly when the end price is above the start price and
\* "down" exactly when it is below
DirectionFromPrices(coords) ==
  \A i \in 1..Len(coords) :
    /\ coords[i].direction = "up" <=> coords[i].y[2] > coords[i].y[1]
    /\ coords[i].direction = "down" <=> coords[i].y[2] < coords[i].y[1]

\* C3: for every extracted stroke and segment, direction is "up" iff its end
\* price is greater than its start price and "down" iff it is lower.
DirectionMatchesPrices ==
  (Delivered("load_chan_data") /\ ret.res.kind = "return") =>
    /\ DirectionFromPrices(ret.res.value.bi)
    /\ DirectionFromPrices(ret.res.value.segment)

\* the upstream flag of a line disagrees with the comparison of its prices
Mismatch(line) ==
  \/ line.dir = 1 /\ ~(line.end_val > line.begin_val)
  \/ line.dir # 1 /\ ~(line.end_val < line.begin_val)

\* C4: when the direction derived from the prices of a stroke or segment
\* disagrees with the upstream flag, a consistency warning is surfaced.
MismatchIsWarned ==
  (Delivered("load_chan_data") /\ ret.res.kind = "return"
     /\ \E l \in {call.engine.chan.bi_list[i] : i \in 1..Len(call.engine.chan.bi_list)}
            \cup {call.engine.chan.seg_list[i] : i \in 1..Len(call.engine.chan.seg_list)} :
          Mismatch(l)) =>
    \E i \in 1..Len(ret.printed) : ret.printed[i] = "consistency_warning"

\* every index of the dataset is a position into its dates
IndicesValid(data) ==
  LET n == Len(data.kline.dates)
      Valid(i) == 0 <= i /\ i < n
  IN /\ \A i \in 1..Len(data.bi) : Valid(data.bi[i].x[1]) /\ Valid(data.bi[i].x[2])
     /\ \A i \in 1..Len(data.segment) :
          Valid(data.segment[i].x[1]) /\ Valid(data.segment[i].x[2])
     /\ \A i \in 1..Len(data.central_zone) :
          Valid(data.central_zone[i].x[1]) /\ Valid(data.central_zone[i].x[2])
     /\ \A i \in 1..Len(data.buy_sell_points) :
          Valid(data.buy_sell_points[i].kl_idx)

TaggedFallback(res) ==
  /\ res.kind = "return"
  /\ "degraded" \in DOMAIN res.value
  /\ IndicesValid(res.value)

\* C6: when the engine raises during computation load_chan_data returns a
\* fallback dataset with a degraded tag that satisfies the dataset
\* invariants; it does not raise to the caller.
EngineFailureFallsBack ==
  \A op \in {"load_chan_data", "module_load_chan_data"} :
    (Returned(op) /\ ret.engine_calls # <<>> /\ call.engine.raises) =>
      TaggedFallback(ret.res)

\* C7: when the engine cannot be loaded load_chan_data returns the fallback
\* dataset with a degraded tag.
UnavailableFallsBack ==
  (Returned("load_chan_data") /\ ~chan_available
     /\ call.code # "" /\ call.level # "") =>
    TaggedFallback(ret.res)

\* the engine's result has an overlay object or a lookup whose accessor fails
Defective(chan) ==
  \/ chan.fault # "none"
  \/ ~AllOk(chan.bi_list) \/ ~AllOk(chan.seg_list)
  \/ ~AllOk(chan.zs_list) \/ ~AllOk(chan.bs_point_lst)

\* C8: a structural violation discovered during extraction propagates to the
\* caller as a failure; it is not replaced by mock data or by an empty or
\* truncated overlay list.
ExtractionFailurePropagates ==
  \A op \in {"load_chan_data", "module_load_chan_data"} :
    (Delivered(op) /\ Defective(call.engine.chan)) => ret.res.kind = "raise"

Loads == {"load_chan_data", "module_load_chan_data"}

FailsFast ==
  /\ ret.res.kind = "raise"
  /\ ret.res.exc = "ValueError"
  /\ ret.engine_calls = <<>>

\* C9 as stated: load_chan_data fails fast with an invalid-parameters error,
\* before any engine call, whenever code, level or a date is missing.
MissingParameterFailsFast ==
  (pc = "returned" /\ call.op \in Loads
     /\ (call.code = "" \/ call.level = ""
         \/ call.start_date = "" \/ call.end_date = "")) =>
    FailsFast

\* C9: load_chan_data fails fast with an invalid-parameters error, before
\* any engine call, whenever code or level is missing; a missing start or end
\* date is no error: it is replaced by its default (2023-01-01, today) in the
\* request to the engine.
MissingCodeOrLevelFailsFast ==
  (pc = "returned" /\ call.op \in Loads) =>
    /\ (call.code = "" \/ call.level = "") => FailsFast
    /\ (call.code # "" /\ call.level # "") =>
         /\ ~(ret.res.kind = "raise" /\ ret.res.exc = "ValueError")
         /\ \A i \in 1..Len(ret.engine_calls) :
              /\ ret.engine_calls[i].begin_time =
                   (IF call.start_date = "" THEN "2023-01-01" ELSE call.start_date)
              /\ ret.engine_calls[i].end_time =
                   (IF call.end_date = "" THEN Today ELSE call.end_date)

MissingCodeOrLevelFailsFastSeen ==
  /\ Returned("load_chan_data")
  /\ call.level = "" /\ call.code # ""
  /\ call.start_date # "" /\ call.end_date # ""
  /\ ~chan_available
  /\ ret.res.kind = "raise" /\ ret.res.exc = "ValueError"

\* C10: when the aggregate sequence contains an empty aggregate the mapper
\* fails with MalformedAggregate; it returns no lookup and stores no range
\* whose end is below its start.
EmptyAggregateIsRejected ==
  (Returned("build_klu_index_mapping") /\ ~AllNonEmpty(call.kline_list)) =>
    /\ ret.res.kind = "raise"
    /\ ret.res.exc = "MalformedAggregate"

SeriesFields == {"dates", "open", "close", "low", "high", "volume"}

\* C11: the series has six arrays of length totalRawUnits; the entry at
\* global index i of each is the field of the i-th raw unit in
\* aggregate-then-child order, unaltered, so that high >= open, close, low in
\* the output wherever it holds in the input.
SeriesIsFlatCopy ==
  (Delivered("load_chan_data") /\ ret.res.kind = "return") =>
    LET kl == call.engine.chan.kline_list
        sizes == SizesOf(kl)
        total == SumSizes(sizes, Len(sizes))
        kline == ret.res.value.kline
    IN /\ DOMAIN kline = SeriesFields
       /\ \A f \in SeriesFields : Len(kline[f]) = total
       /\ \A a \in 1..Len(kl) : \A j \in 1..sizes[a] :
            LET i == SumSizes(sizes, a - 1) + j
                klu == kl[a].lst[j]
            IN /\ kline.dates[i] = StrOfTime(klu.time)
               /\ kline.open[i] = klu.open /\ kline.close[i] = klu.close
               /\ kline.low[i] = klu.low /\ kline.high[i] = klu.high
               /\ kline.volume[i] = klu.volume
               /\ (klu.high >= klu.open /\ klu.high >= klu.close
                   /\ klu.high >= klu.low) =>
                    /\ kline.high[i] >= kline.open[i]
                    /\ kline.high[i] >= kline.close[i]
                    /\ kline.high[i] >= kline.low[i]

SeriesIsFlatCopySeen ==
  /\ Delivered("load_chan_data")
  /\ ret.res.kind = "return"
  /\ SizesOf(call.engine.chan.kline_list) = <<2, 3, 1>>
  /\ Len(ret.res.value.kline.dates) = 6
  /\ ret.res.value.kline.open[6] = 10500
  /\ ret.res.value.kline.high[3] = 10350

\* C12: in the extracted stroke list every two consecutive strokes have
\* opposite directions.
StrokesAlternate ==
  \A op \in Loads :
    (Delivered(op) /\ ret.res.kind = "return") =>
      LET bi == ret.res.value.bi IN
      \A i \in 1..(Len(bi) - 1) :
        /\ bi[i].direction \in {"up", "down"}
        /\ bi[i + 1].direction \in {"up", "down"}
        /\ bi[i].direction # bi[i + 1].direction

StrokesAlternateSeen ==
  /\ Delivered("load_chan_data")
  /\ ret.res.kind = "return"
  /\ Len(ret.res.value.bi) = 2
  /\ ret.res.value.bi[1].direction = "down"
  /\ ret.res.value.bi[2].direction = "up"
  /\ ret.res.value.bi[1].x[2] = ret.res.value.bi[2].x[1]

\* the zone list a returned call produced
ZonesOf(op) ==
  IF op = "extract_zs_data" THEN ret.res.value ELSE ret.res.value.central_zone

\* C13: every extracted zone has low <= high and startIndex <= endIndex.
ZonesWellFormed ==
  \A op \in Loads \cup {"extract_zs_data"} :
    (Returned(op) /\ ret.res.kind = "return") =>
      \A i \in 1..Len(ZonesOf(op)) :
        /\ ZonesOf(op)[i].y[1] <= ZonesOf(op)[i].y[2]
        /\ ZonesOf(op)[i].x[1] <= ZonesOf(op)[i].x[2]

ZonesWellFormedSeen ==
  /\ Delivered("load_chan_data")
  /\ ret.res.kind = "return"
  /\ Len(ret.res.value.central_zone) = 2
  /\ ret.res.value.central_zone[2].y = <<9900, 10100>>
  /\ ret.res.value.central_zone[2].x[1] = ret.res.value.central_zone[2].x[2]
  /\ ret.res.value.central_zone[2].x[1] > 0

\* C14: the Zone Extractor validates both boundary indices of every zone
\* against [0, totalRawUnits): no zone with an index outside the interval is
\* among the rectangles it returns.
ZoneIndicesValidated ==
  (Returned("extract_zs_data") /\ ret.res.kind = "return") =>
    LET total == Len(KluSeq(call.kline_list)) IN
    \A i \in 1..Len(ret.res.value) :
      /\ 0 <= ret.res.value[i].x[1] /\ ret.res.value[i].x[1] < total
      /\ 0 <= ret.res.value[i].x[2] /\ ret.res.value[i].x[2] < total

\* the signal list a returned call produced, its input signals and the raw
\* units they are over
SignalsOf(op) ==
  IF op = "extract_bsp_data" THEN ret.res.value ELSE ret.res.value.buy_sell_points

SignalInputsOf(op) ==
  IF op = "extract_bsp_data" THEN call.bsp_list ELSE call.engine.chan.bs_point_lst

SignalUnitsOf(op) ==
  IF op = "extract_bsp_data" THEN KluSeq(call.kline_list)
  ELSE KluSeq(call.engine.chan.kline_list)

SignalOps == {"load_chan_data", "extract_bsp_data"}

DrawnSignals ==
  SelectSeq(call.data.buy_sell_points,
            LAMBDA bsp : bsp.kl_idx < Len(call.data.kline.dates))

Rendered == Returned("create_chan_chart") /\ ret.res.kind = "return"

\* max(high) - min(low) over the whole series
SeriesRange(kline) ==
  LET highs == {kline.high[i] : i \in 1..Len(kline.high)}
      lows == {kline.low[i] : i \in 1..Len(kline.low)}
  IN (CHOOSE h \in highs : \A g \in highs : g <= h)
     - (CHOOSE l \in lows : \A g \in lows : l <= g)

\* C17: the display price of a buy signal is price - 0.05 * (max(high) -
\* min(low)) and of a sell signal price + 0.05 * (max(high) - min(low)), the
\* range taken over the whole series; a buy signal at price 50 over a series
\* with range 20 has offset -1.0 and display price 49.0.
DisplayPriceIsOffset ==
  Rendered =>
    /\ Len(ret.res.value.signals) = Len(DrawnSignals)
    /\ \A i \in 1..Len(DrawnSignals) :
         LET bsp == DrawnSignals[i]
             shift == ret.res.value.signals[i].y - ChartY(bsp.price)
             range == ChartY(SeriesRange(call.data.kline))
         IN /\ bsp.is_buy => 100 * shift = -5 * range
            /\ ~bsp.is_buy => 100 * shift = 5 * range
            /\ (bsp.is_buy /\ bsp.price = 5000 /\ range = ChartY(2000)) =>
                 /\ shift = -ChartY(100)
                 /\ ret.res.value.signals[i].y = ChartY(4900)

DisplayPriceIsOffsetSeen ==
  /\ Rendered
  /\ call.data.kline = ScenarioKline
  /\ Len(ret.res.value.signals) = 2
  /\ call.data.buy_sell_points[1] = Signal(10, 5000, TRUE, "1")
  /\ ret.res.value.signals[1].y = 490000
  /\ ~call.data.buy_sell_points[2].is_buy
  /\ ret.res.value.signals[2].y = 490000

\* the class strings that name a class; every other one is unknown
KnownTypes == {"1", "1p", "2", "2s", "3a", "3b", "2,3a"}

\* C18: the label is the side letter directly followed by the class string
\* ("b1", "s2,3a"); a signal of unknown or empty class is labelled "b?" when
\* it is a buy and "s?" when it is a sell.
LabelIsSideThenClass ==
  Rendered =>
    \A i \in 1..Len(DrawnSignals) :
      LET bsp == DrawnSignals[i]
          side == IF bsp.is_buy THEN "b" ELSE "s"
      IN ret.res.value.signals[i].text
           = (IF bsp.type \in KnownTypes THEN side \o bsp.type ELSE side \o "?")

\* the ordinal class of a class string that names one class; 0 otherwise
OrdinalClass(t) ==
  CASE t \in {"1", "1p"} -> 1
    [] t \in {"2", "2s"} -> 2
    [] t \in {"3a", "3b"} -> 3
    [] OTHER -> 0

\* C19: of two signals drawn in one figure the one of the lower ordinal class
\* has the strictly larger marker (class 1 > class 2 > class 3), whatever
\* their sides; a signal of unknown class has no larger marker than a class-1
\* signal.
MarkerWeightOrdered ==
  Rendered =>
    \A i, j \in 1..Len(DrawnSignals) :
      LET ti == DrawnSignals[i].type
          tj == DrawnSignals[j].type
          size_i == ret.res.value.signals[i].size
          size_j == ret.res.value.signals[j].size
      IN /\ (OrdinalClass(ti) > 0 /\ OrdinalClass(ti) < OrdinalClass(tj)) =>
              size_i > size_j
         /\ (ti \notin KnownTypes /\ OrdinalClass(tj) = 1) => size_i <= size_j

MarkerWeightOrderedSeen ==
  /\ Rendered
  /\ Len(ret.res.value.signals) = 2
  /\ DrawnSignals[1].type = "2s" /\ DrawnSignals[1].is_buy
  /\ DrawnSignals[2].type = "3b" /\ ~DrawnSignals[2].is_buy
  /\ ret.res.value.signals[1].size = 12
  /\ ret.res.value.signals[2].size = 10

\* a mock branch of the module-level revision produced part of the dataset
FallbackTaken ==
  /\ Delivered("module_load_chan_data")
  /\ ret.res.kind = "return"
  /\ LET chan == call.engine.chan IN
     \/ chan.fault \in {"kl_datas", "klu"}
     \/ Len(chan.bi_list) > 0 /\ (~AllOk(chan.bi_list) \/ ~call.klc_has_close)
     \/ Len(chan.seg_list) > 0 /\ (~AllOk(chan.seg_list) \/ ~call.klc_has_close)
     \/ ~AllOk(chan.zs_list)
     \/ ~AllOk(chan.bs_point_lst)

\* the invariants of the data model on a dataset
DatasetConsistent(data) ==
  /\ \A i \in 1..(Len(data.kline.dates) - 1) :
       data.kline.dates[i][2] < data.kline.dates[i + 1][2]
  /\ \A i \in 1..Len(data.kline.high) : data.kline.high[i] >= data.kline.low[i]
  /\ \A i \in 1..(Len(data.bi) - 1) : data.bi[i].direction # data.bi[i + 1].direction
  /\ \A i \in 1..Len(data.central_zone) :
       data.central_zone[i].y[1] <= data.central_zone[i].y[2]
  /\ IndicesValid(data)

\* C20: every dataset the fallback generator produces has strictly increasing
\* dates, high >= low at every index, alternating stroke directions, zones
\* with low <= high and every stroke, segment, zone and signal index within
\* [0, len(dates)).
FallbackDatasetsConsistent ==
  FallbackTaken => DatasetConsistent(ret.res.value)

\* the fields the class's conversion gives a dataset and its entries
StrokeFields == {"x", "y", "type", "direction", "is_sure"}

ZoneFields == {"x", "y", "type", "is_sure"}

SignalFields == {"kl_idx", "price", "is_buy", "type"}

HasRealSchema(data) ==
  /\ DOMAIN data = {"kline", "bi", "segment", "central_zone", "buy_sell_points"}
  /\ DOMAIN data.kline = SeriesFields
  /\ \A f \in DOMAIN data.kline : Len(data.kline[f]) = Len(data.kline.dates)
  /\ \A i \in 1..Len(data.bi) : DOMAIN data.bi[i] = StrokeFields
  /\ \A i \in 1..Len(data.segment) : DOMAIN data.segment[i] = StrokeFields
  /\ \A i \in 1..Len(data.central_zone) : DOMAIN data.central_zone[i] = ZoneFields
  /\ \A i \in 1..Len(data.buy_sell_points) :
       DOMAIN data.buy_sell_points[i] = SignalFields

\* _get_mock_data() produced the dataset: chan[level] raised
MockDataReturned ==
  /\ Delivered("module_load_chan_data")
  /\ ret.res.kind = "return"
  /\ call.engine.chan.fault = "kl_datas"

\* C21: a fallback dataset has the schema of a real one: the same top-level
\* keys, six equal-length series arrays including volume, and the same fields
\* on every stroke, segment, zone and signal, direction and certainty flag
\* included.
FallbackHasRealSchema ==
  MockDataReturned => HasRealSchema(ret.res.value)

\* the options that steer the engine's computation
EngineOptions == {"bi_strict", "zs_combine", "seg_algo", "zs_algo"}

\* C22: the presentation options (show_bsp, show_bi, show_seg, show_zs) are
\* never part of the configuration record passed to the engine: only
\* bi_strict, zs_combine, seg_algo and zs_algo are forwarded.
OnlyEngineOptionsForwarded ==
  \A i \in 1..Len(ret.engine_calls) :
    DOMAIN ret.engine_calls[i].config \subseteq EngineOptions

\* a conversion has just run on the result that the same conversion ran on
\* just before
ConvertedAgain(op) ==
  /\ call.op = op
  /\ call'.op = op
  /\ call'.chan = call.chan

\* C23: extraction is idempotent: running the conversion twice on the same
\* unchanged input yields identical output, on the real-data path and on
\* every fallback and mock path.
ConversionIdempotent ==
  [][/\ ConvertedAgain("convert_to_visualization_data") => ret'.res = ret.res
     /\ ConvertedAgain("module_convert_to_visualization_data") => ret'.res = ret.res]_vars

\* a step of generate_chart or of the script (the clock stands still)
AppStep ==
  /\ now' = now
  /\ call'.op \in {"generate_chart", "main"}

\* the generation reached its end: data loaded, figure made
Succeeded(r) == r.attempted /\ r.errors = <<>>

\* the load returned data without asking the engine
ServedFromCache(r) ==
  r.attempted /\ r.load.kind = "return" /\ r.engine_calls = <<>>

\* the full tuple of a request
RequestTuple(c) ==
  <<c.code, c.level, from_streamlit(c.chan_params), c.start_date, c.end_date>>

\* the entries written for the tuple less than the time-to-live ago
AliveFor(tuple) ==
  {k \in DOMAIN cache : cache[k].args = tuple /\ now - cache[k].written < CacheTtl}

ChartEntries == {"chart_figure", "chart_data", "last_update"}

\* C28: after any sequence of generate_chart calls the entries chart_figure,
\* chart_data and last_update are all absent or all present and stem from
\* the same, most recent successful call; a failed call (the load or the
\* rendering raises) leaves all three unchanged; has_chart() is true exactly
\* when some earlier call succeeded.
SessionEntriesTogether ==
  [][AppStep =>
       /\ DOMAIN session_state' \cap ChartEntries \in {{}, ChartEntries}
       /\ IF Succeeded(ret')
          THEN /\ session_state'.chart_data = ret'.load.value
               /\ session_state'.chart_figure = ret'.render.value
               /\ session_state'.last_update = now
          ELSE \A k \in ChartEntries :
                 /\ k \in DOMAIN session_state' <=> k \in DOMAIN session_state
                 /\ k \in DOMAIN session_state => session_state'[k] = session_state[k]
       /\ has_chart(session_state') <=> (has_chart(session_state) \/ Succeeded(ret'))]_vars

\* a call whose rendering raised, after an earlier call had stored a chart
SessionEntriesTogetherSeen ==
  /\ call.op = "generate_chart"
  /\ ret.load.kind = "return"
  /\ ret.render.kind = "raise"
  /\ has_chart(session_state)
  /\ session_state.chart_data # ret.load.value
  /\ session_state.last_update < now

\* st.session_state.get('refresh_chart')
RefreshFlag(session) == GetOr(session, "refresh_chart", FALSE)

\* C29: in run_app.main the refresh_chart flag, once set by the sidebar
\* button, is cleared only by a successful generation; after a failed
\* generation it stays set, so every later rerun attempts the generation
\* again until one succeeds.
RefreshFlagClearedBySuccess ==
  [][/\ (RefreshFlag(session_state) /\ ~RefreshFlag(session_state')) =>
          (AppStep /\ call'.op = "main" /\ Succeeded(ret'))
     /\ (AppStep /\ call'.op = "main") =>
          LET set == RefreshFlag(session_state) \/ call'.button = "sidebar" IN
          /\ set => ret'.attempted
          /\ (set /\ ~Succeeded(ret')) => RefreshFlag(session_state')
          /\ Succeeded(ret') => ~RefreshFlag(session_state')]_vars

\* a rerun without any button pressed attempted the generation again, failed
\* again, and the flag is still set
RefreshFlagClearedBySuccessSeen ==
  /\ call.op = "main"
  /\ call.button = "none"
  /\ ret.attempted
  /\ ret.errors # <<>>
  /\ RefreshFlag(session_state)

UpstreamFlags(list) == [i \in 1..Len(list) |-> list[i].is_sure]

EmittedFlags(entries) == [i \in 1..Len(entries) |-> entries[i].is_sure]

\* C26: the certainty emitted for every stroke, segment and zone equals the
\* upstream object's certainty flag unchanged; a provisional object is never
\* emitted as certain.
CertaintyPassedThrough ==
  (Delivered("load_chan_data") /\ ret.res.kind = "return") =>
    LET chan == call.engine.chan data == ret.res.value IN
    /\ EmittedFlags(data.bi) = UpstreamFlags(chan.bi_list)
    /\ EmittedFlags(data.segment) = UpstreamFlags(chan.seg_list)
    /\ EmittedFlags(data.central_zone) = UpstreamFlags(chan.zs_list)

\* a provisional zone was emitted as provisional
CertaintyPassedThroughSeen ==
  /\ Delivered("load_chan_data")
  /\ ret.res.kind = "return"
  /\ Len(call.engine.chan.zs_list) = 1
  /\ ~call.engine.chan.zs_list[1].is_sure
  /\ Len(ret.res.value.central_zone) = 1
  /\ ~ret.res.value.central_zone[1].is_sure

\* C27: every extracted stroke and every extracted segment has a start index
\* strictly smaller than its end index, and for consecutive strokes the end
\* index of stroke i is at most the start index of stroke i+1.
LinesRunForward ==
  (Delivered("load_chan_data") /\ ret.res.kind = "return") =>
    LET bi == ret.res.value.bi seg == ret.res.value.segment IN
    /\ \A i \in 1..Len(bi) : bi[i].x[1] < bi[i].x[2]
    /\ \A i \in 1..Len(seg) : seg[i].x[1] < seg[i].x[2]
    /\ \A i \in 1..(Len(bi) - 1) : bi[i].x[2] <= bi[i + 1].x[1]

\* two strokes meeting at a raw unit inside the second aggregate
LinesRunForwardSeen ==
  /\ Delivered("load_chan_data")
  /\ ret.res.kind = "return"
  /\ SizesOf(call.engine.chan.kline_list) = <<2, 3, 1>>
  /\ Len(ret.res.value.bi) = 2
  /\ ret.res.value.bi[1].x = <<0, 3>>
  /\ ret.res.value.bi[2].x = <<3, 5>>

\* idx lies in [0, len(dates))
InSeries(dates, idx) == idx >= 0 /\ idx < Len(dates)

\* the dates of the entries all of whose indices lie in the series
DatesOfValid(dates, entries) ==
  LET Valid(e) == \A j \in 1..Len(e.x) : InSeries(dates, e.x[j])
      valid == SelectSeq(entries, Valid)
  IN [i \in 1..Len(valid) |-> [j \in 1..Len(valid[i].x) |-> dates[valid[i].x[j] + 1]]]

DatesOfValidSignals(dates, signals) ==
  LET Valid(b) == InSeries(dates, b.kl_idx)
      valid == SelectSeq(signals, Valid)
  IN [i \in 1..Len(valid) |-> dates[valid[i].kl_idx + 1]]

\* the dates the traces of a figure are drawn at
DatesDrawn(traces) == [i \in 1..Len(traces) |-> traces[i].x]

\* C30: create_chan_chart draws a stroke, segment, zone or signal only when
\* every one of its indices lies in [0, len(dates)), and then at exactly
\* dates[index]; a primitive with an index outside that interval (too large
\* or negative) is skipped and never drawn at another date.
OnlyValidIndicesDrawn ==
  Returned("create_chan_chart") =>
    LET data == call.data dates == call.data.kline.dates IN
    /\ ret.res.kind = "return"
    /\ DatesDrawn(ret.res.value.strokes) = DatesOfValid(dates, data.bi)
    /\ DatesDrawn(ret.res.value.segments) = DatesOfValid(dates, data.segment)
    /\ DatesDrawn(ret.res.value.zones) = DatesOfValid(dates, data.central_zone)
    /\ DatesDrawn(ret.res.value.signals)
         = DatesOfValidSignals(dates, data.buy_sell_points)

====
